---- MODULE Spec2Model ----
(***************************************************************************)
(* Model of fava_fix_uncategorized: the amount normalizer                  *)
(* (normalize_and_validate_posting) and the posting splicer                *)
(* (replace_unclassified_posting).                                         *)
(*                                                                         *)
(* Text is a sequence of tokens.  A token is one character ("1", ",", " ", *)
(* "\n", ...) or an indivisible word that contains no whitespace, no line  *)
(* break and no quote ("Expenses:", "Food", ...).  A posting is a Python   *)
(* dict, modelled as a record whose "amount" key may be missing.  The      *)
(* caller's posting objects live in new_postings and are shared with the   *)
(* callee, as Python passes references.                                    *)
(***************************************************************************)
EXTENDS Integers, Sequences, FiniteSets, TLC

VARIABLES
    new_postings,   \* the caller's list of posting dicts (mutable objects)
    orig_postings,  \* history: new_postings as the caller built it
    entry_str,      \* the transaction text handed to the splicer
    result,         \* outcome of the first call
    result2,        \* outcome of the second call (on the first call's result)
    pc,             \* position of the caller
    new_narration,  \* the narration handed to the narration rewriter
    ledger,         \* the loaded ledger: entry hash -> the entry's source text
    failing,        \* the hashes whose slice the ledger file refuses to write
    request,        \* the JSON body of the save request
    response,       \* what the save endpoint answered
    persisted       \* history: the slices written to the ledger file, in order

\* The variables of the save endpoint
saveVars == <<ledger, failing, request, response, persisted>>

vars == <<new_postings, orig_postings, entry_str, result, result2, pc,
          new_narration, saveVars>>

(***************************************************************************)
(* Bounds of the model.                                                    *)
(***************************************************************************)
MaxLen == 5         \* longest raw amount string drawn for the normalizer
MaxLines == 3       \* most lines of a transaction block
MaxPostings == 2    \* most new postings of one splice
MaxGroups == 2      \* most quoted groups of a header line
MaxTxns == 2        \* most transactions of one save request
MaxDate == 3        \* latest day of the calendar the listing is tried on

(***************************************************************************)
(* Character classes and string helpers.                                   *)
(***************************************************************************)
Digits == {"0", "1", "2", "3", "4", "5", "6", "7", "8", "9"}

LowerLetters == {"c", "h", "f", "u", "s", "d"}

UpperLetters == {"C", "H", "F", "U", "S", "D"}

Letters == LowerLetters \cup UpperLetters

Whitespace == {" ", "\t", "\n"}

IsDigit(c) == c \in Digits

IsLetter(c) == c \in Letters

IsSpace(c) == c \in Whitespace

\* str.upper() on one character
UpperChar(c) ==
    CASE c = "c" -> "C"
      [] c = "h" -> "H"
      [] c = "f" -> "F"
      [] c = "u" -> "U"
      [] c = "s" -> "S"
      [] c = "d" -> "D"
      [] OTHER -> c

Upper(s) == [i \in 1..Len(s) |-> UpperChar(s[i])]

\* s[i..j-1] (Python slice s[i-1:j-1]); empty when j <= i
Slice(s, i, j) == [k \in 1..(j - i) |-> s[i + k - 1]]

\* str.lstrip(): drop the leading whitespace
LStrip(s) ==
    LET firstNonSpace ==
            IF \E i \in 1..Len(s) : ~IsSpace(s[i])
            THEN CHOOSE i \in 1..Len(s) :
                     /\ ~IsSpace(s[i])
                     /\ \A k \in 1..(i - 1) : IsSpace(s[k])
            ELSE Len(s) + 1
    IN  Slice(s, firstNonSpace, Len(s) + 1)

\* str.rstrip(): drop the trailing whitespace
RStrip(s) ==
    LET lastNonSpace ==
            IF \E i \in 1..Len(s) : ~IsSpace(s[i])
            THEN CHOOSE i \in 1..Len(s) :
                     /\ ~IsSpace(s[i])
                     /\ \A k \in (i + 1)..Len(s) : IsSpace(s[k])
            ELSE 0
    IN  Slice(s, 1, lastNonSpace + 1)

\* Faulty variant of Strip: the amount is not trimmed
StripIdentity(s) == s

\* str.strip()
Strip(s) == LStrip(RStrip(s))

\* str.replace(c, ""): delete every occurrence of the character c
RECURSIVE Remove(_, _)
Remove(s, c) ==
    IF s = <<>> THEN <<>>
    ELSE IF Head(s) = c THEN Remove(Tail(s), c)
         ELSE <<Head(s)>> \o Remove(Tail(s), c)

(***************************************************************************)
(* The amount pattern of normalize_and_validate_posting and pattern.match. *)
(* Positions run from 1 to Len(s) + 1; each XxxEnds(s, i) is the set of    *)
(* positions at which that piece of the pattern can end when it starts at  *)
(* position i.                                                             *)
(***************************************************************************)
\* \-?
MinusEnds(s, i) ==
    {i} \cup (IF i <= Len(s) /\ s[i] = "-" THEN {i + 1} ELSE {})

\* \s*
SpaceEnds(s, i) ==
    {j \in i..(Len(s) + 1) : \A k \in i..(j - 1) : IsSpace(s[k])}

\* \d+
DigitEnds(s, i) ==
    {j \in (i + 1)..(Len(s) + 1) : \A k \in i..(j - 1) : IsDigit(s[k])}

\* (?:[.,]\d+)*
GroupEnds(s, i) ==
    {j \in i..(Len(s) + 1) :
        /\ \A k \in i..(j - 1) : IsDigit(s[k]) \/ s[k] \in {".", ","}
        /\ \A k \in i..(j - 2) : ~(s[k] \in {".", ","} /\ s[k + 1] \in {".", ","})
        /\ j > i => (s[i] \in {".", ","} /\ IsDigit(s[j - 1]))}

\* (?:[.]\d{2})?
FractionEnds(s, i) ==
    {i} \cup (IF /\ i + 2 <= Len(s)
                 /\ s[i] = "."
                 /\ IsDigit(s[i + 1])
                 /\ IsDigit(s[i + 2])
              THEN {i + 3} ELSE {})

\* (?P<number>\-?\s*\d+(?:[.,]\d+)*(?:[.]\d{2})?|\d+), matched from position 1
NumberEnds(s) ==
    UNION {UNION {UNION {UNION {FractionEnds(s, e) : e \in GroupEnds(s, d)}
                         : d \in DigitEnds(s, b)}
                  : b \in SpaceEnds(s, a)}
           : a \in MinusEnds(s, 1)}
    \cup DigitEnds(s, 1)

\* (?P<currency>[A-Za-z]{3})?
CurrencyEnds(s, i) ==
    {i} \cup (IF /\ i + 2 <= Len(s)
                 /\ \A k \in i..(i + 2) : IsLetter(s[k])
              THEN {i + 3} ELSE {})

\* Faulty variant of AtEnd: the pattern without its $ anchor
AtEndNoAnchor(s, i) == TRUE

\* $ : the end of the string, or just before a final line break
AtEnd(s, i) ==
    \/ i = Len(s) + 1
    \/ i = Len(s) /\ s[i] = "\n"

\* The ways the whole pattern matches s from its start: <<n, c, e>> with the
\* number group s[1..n-1], the currency group s[c..e-1] (c = e: the group did
\* not take part).
MatchPaths(s) ==
    UNION {UNION {{<<n, c, e>> : e \in {x \in CurrencyEnds(s, c) : AtEnd(s, x)}}
                  : c \in SpaceEnds(s, n)}
           : n \in NumberEnds(s)}

\* pattern.match(amount) is not None
PatternMatches(s) == MatchPaths(s) # {}

\* The match the engine reports: greedy quantifiers, so the longest number,
\* then the longest run of whitespace, then the currency if it can be taken.
MatchOf(s) ==
    CHOOSE p \in MatchPaths(s) :
        \A q \in MatchPaths(s) :
            \/ p[1] > q[1]
            \/ p[1] = q[1] /\ p[2] > q[2]
            \/ p[1] = q[1] /\ p[2] = q[2] /\ p[3] >= q[3]

\* match.group("number")
NumberGroup(s) == Slice(s, 1, MatchOf(s)[1])

\* match.group("currency"); <<>> stands for None
CurrencyGroup(s) == Slice(s, MatchOf(s)[2], MatchOf(s)[3])

(***************************************************************************)
(* normalize_and_validate_posting                                          *)
(***************************************************************************)
DefaultCurrency == <<"C", "H", "F">>

\* posting.get("amount", "")
GetAmount(p) == IF "amount" \in DOMAIN p THEN p.amount ELSE <<>>

\* posting["amount"] = a
SetAmount(p, a) ==
    [k \in DOMAIN p \cup {"amount"} |-> IF k = "amount" THEN a ELSE p[k]]

\* match.group("number").replace(",", "").replace(" ", "")
CleanNumber(number) == Remove(Remove(number, ","), " ")

\* Faulty variant of CurrencyOrDefault: the currency is not upper-cased
CurrencyNoUpper(currency) ==
    IF currency # <<>> THEN currency ELSE DefaultCurrency

\* currency.upper() if currency else "CHF"
CurrencyOrDefault(currency) ==
    IF currency # <<>> THEN Upper(currency) ELSE DefaultCurrency

\* Faulty variant of FormatAmount: the currency ahead of the number
FormatAmountCurrencyFirst(number, currency) == currency \o <<" ">> \o number

\* f"{number} {currency}"
FormatAmount(number, currency) == number \o <<" ">> \o currency

\* f"Invalid amount format: {amount}"
InvalidAmountError(amount) == <<"Invalid amount format: ">> \o amount

\* Faulty variant of Normalize: the trimmed amount is stored before it is
\* validated
NormalizeStoresFirst(p) ==
    LET amount == Strip(GetAmount(p))
    IN  IF amount # <<>>
        THEN IF ~PatternMatches(amount)
             THEN [raised |-> TRUE,
                   error |-> InvalidAmountError(amount),
                   posting |-> SetAmount(p, amount)]
             ELSE [raised |-> FALSE,
                   error |-> <<>>,
                   posting |-> SetAmount(p,
                       FormatAmount(CleanNumber(NumberGroup(amount)),
                                    CurrencyOrDefault(CurrencyGroup(amount))))]
        ELSE [raised |-> FALSE, error |-> <<>>, posting |-> SetAmount(p, <<>>)]

\* Faulty variant of Normalize: a blank amount is an invalid amount
NormalizeRejectsBlank(p) ==
    LET amount == Strip(GetAmount(p))
    IN  IF ~PatternMatches(amount)
        THEN [raised |-> TRUE,
              error |-> InvalidAmountError(amount),
              posting |-> p]
        ELSE [raised |-> FALSE,
              error |-> <<>>,
              posting |-> SetAmount(p,
                  FormatAmount(CleanNumber(NumberGroup(amount)),
                               CurrencyOrDefault(CurrencyGroup(amount))))]

\* One call normalize_and_validate_posting(p): whether it raised, the error
\* it raised, and the posting object p as the call leaves it (the value
\* returned is that same object).
Normalize(p) ==
    LET amount == Strip(GetAmount(p))
    IN  IF amount # <<>>
        THEN IF ~PatternMatches(amount)
             THEN [raised |-> TRUE,
                   error |-> InvalidAmountError(amount),
                   posting |-> p]
             ELSE [raised |-> FALSE,
                   error |-> <<>>,
                   posting |-> SetAmount(p,
                       FormatAmount(CleanNumber(NumberGroup(amount)),
                                    CurrencyOrDefault(CurrencyGroup(amount))))]
        ELSE [raised |-> FALSE, error |-> <<>>, posting |-> SetAmount(p, <<>>)]

(***************************************************************************)
(* A caller of the normalizer: it builds one posting, normalizes it, and   *)
(* normalizes the returned posting again.                                  *)
(***************************************************************************)
AmountAlphabet == {"-", " ", "\t", "1", ".", ",", "u", "C"}

\* No save request is under way: the variables of the save endpoint rest
SaveIdle ==
    /\ ledger = <<>>
    /\ failing = {}
    /\ request = <<>>
    /\ response = <<>>
    /\ persisted = <<>>

RawAmounts == UNION {[1..n -> AmountAlphabet] : n \in 0..MaxLen}

FoodAccount == <<"Expenses:", "Food">>

NoResult == [raised |-> FALSE, error |-> <<>>, value |-> <<"not called">>]

InitNormalize ==
    /\ \/ \E a \in RawAmounts :
              new_postings = <<[account |-> FoodAccount, amount |-> a]>>
       \/ new_postings = <<[account |-> FoodAccount]>>
    /\ orig_postings = new_postings
    /\ entry_str = <<>>
    /\ result = NoResult
    /\ result2 = NoResult
    /\ pc = "start"
    /\ new_narration = <<>>
    /\ SaveIdle

\* result = normalize_and_validate_posting(p)
NormalizeCall ==
    /\ pc = "start"
    /\ \E r \in {Normalize(new_postings[1])} :
           /\ new_postings' = <<r.posting>>
           /\ result' = [raised |-> r.raised, error |-> r.error,
                         value |-> IF r.raised THEN <<>> ELSE r.posting.amount]
           /\ pc' = IF r.raised THEN "raised" ELSE "normalized"
    /\ UNCHANGED <<orig_postings, entry_str, result2, new_narration, saveVars>>

\* result2 = normalize_and_validate_posting(result)
NormalizeAgain ==
    /\ pc = "normalized"
    /\ \E r \in {Normalize(new_postings[1])} :
           /\ new_postings' = <<r.posting>>
           /\ result2' = [raised |-> r.raised, error |-> r.error,
                          value |-> IF r.raised THEN <<>> ELSE r.posting.amount]
           /\ pc' = IF r.raised THEN "raised again" ELSE "renormalized"
    /\ UNCHANGED <<orig_postings, entry_str, result, new_narration, saveVars>>

NextNormalize == NormalizeCall \/ NormalizeAgain

SpecNormalize == InitNormalize /\ [][NextNormalize]_vars

(***************************************************************************)
(* replace_unclassified_posting                                            *)
(***************************************************************************)
\* str.splitlines(): the lines of a text, without their line breaks; a final
\* line break opens no further line
RECURSIVE SplitLines(_)
SplitLines(s) ==
    IF s = <<>> THEN <<>>
    ELSE IF \E i \in 1..Len(s) : s[i] = "\n"
         THEN LET i == CHOOSE k \in 1..Len(s) :
                           /\ s[k] = "\n"
                           /\ \A m \in 1..(k - 1) : s[m] # "\n"
              IN  <<Slice(s, 1, i)>> \o SplitLines(Slice(s, i + 1, Len(s) + 1))
         ELSE <<s>>

\* "\n".join(lines)
RECURSIVE JoinLines(_)
JoinLines(lines) ==
    IF lines = <<>> THEN <<>>
    ELSE IF Len(lines) = 1 THEN lines[1]
         ELSE lines[1] \o <<"\n">> \o JoinLines(Tail(lines))

\* str.startswith(prefix)
StartsWith(s, prefix) ==
    /\ Len(s) >= Len(prefix)
    /\ \A i \in 1..Len(prefix) : s[i] = prefix[i]

\* len(line) - len(line.lstrip())
IndentLen(line) == Len(line) - Len(LStrip(line))

\* The loop over the lines keeps in min_indent the smallest non-zero indent;
\* None is written 0 here (no indent recorded is ever 0).
RECURSIVE MinIndent(_, _)
MinIndent(lines, min_indent) ==
    IF lines = <<>> THEN min_indent
    ELSE LET indent_len == IndentLen(Head(lines))
         IN  MinIndent(Tail(lines),
                 IF indent_len # 0 /\ (min_indent = 0 \/ indent_len < min_indent)
                 THEN indent_len ELSE min_indent)

\* Faulty variant of IsKeptLine: only the "Expenses:" prefix is tested
IsKeptLineExpensesOnly(line) ==
    ~StartsWith(LStrip(line), <<"Expenses:">>)

\* not stripped.startswith("Expenses:") and not stripped.startswith("Income:")
IsKeptLine(line) ==
    /\ ~StartsWith(LStrip(line), <<"Expenses:">>)
    /\ ~StartsWith(LStrip(line), <<"Income:">>)

\* Faulty variant of KeptLines: no line is removed
KeptLinesAll(lines) == lines

\* kept_lines after the loop over the lines
KeptLines(lines) == SelectSeq(lines, IsKeptLine)

\* Faulty variant of IndentOf: one space more than the smallest indent
IndentOfOneMore(lines) ==
    LET min_indent == MinIndent(lines, 0)
    IN  [i \in 1..(IF min_indent # 0 THEN min_indent + 1 ELSE 2) |-> " "]

\* Faulty variant of IndentOf: the default indent whatever the lines hold
IndentOfAlwaysDefault(lines) == <<" ", " ">>

\* " " * (min_indent if min_indent is not None else 2)
IndentOf(lines) ==
    LET min_indent == MinIndent(lines, 0)
    IN  [i \in 1..(IF min_indent # 0 THEN min_indent ELSE 2) |-> " "]

\* Faulty variant of ValidateStep: no except clause, the error leaves the loop
ValidateStepPropagating(acc, i) ==
    LET r == Normalize(acc.heap[i])
    IN  IF r.raised
        THEN [acc EXCEPT !.raised = TRUE, !.error = r.error]
        ELSE [acc EXCEPT !.heap[i] = r.posting,
                         !.validated = Append(acc.validated, i)]

\* One turn of the loop over new_postings: the try block normalizes the
\* posting object heap[i] in place and appends it to validated_postings (kept
\* here as the object's index); the except clause swallows any error.
ValidateStep(acc, i) ==
    LET r == Normalize(acc.heap[i])
    IN  IF r.raised
        THEN acc
        ELSE [acc EXCEPT !.heap[i] = r.posting,
                         !.validated = Append(acc.validated, i)]

\* Faulty variant of ValidateLoop: a posting that fails is inserted as it is
RECURSIVE ValidateLoopKeepInvalid(_, _)
ValidateLoopKeepInvalid(acc, i) ==
    IF i > Len(acc.heap) THEN acc
    ELSE ValidateLoopKeepInvalid(
             [ValidateStep(acc, i) EXCEPT !.validated = Append(acc.validated, i)],
             i + 1)

RECURSIVE ValidateLoop(_, _)
ValidateLoop(acc, i) ==
    IF i > Len(acc.heap) \/ acc.raised THEN acc
    ELSE ValidateLoop(ValidateStep(acc, i), i + 1)

\* f"{indent}{p['account']} {p['amount']}"
PostingLine(indent, p) == indent \o p.account \o <<" ">> \o p.amount

\* Faulty variant of FallbackLine: the "0 CHF" line whatever the list holds
FallbackLineAlwaysZero(indent, new_posting_lines) ==
    indent \o <<"Expenses:", "Family:", "Unclassified", " ", "0", " ", "C", "H", "F">>

\* The line appended to new_posting_lines: bare when the list is empty, with
\* "0 CHF" otherwise
FallbackLine(indent, new_posting_lines) ==
    IF Len(new_posting_lines) = 0
    THEN indent \o <<"Expenses:", "Family:", "Unclassified">>
    ELSE indent \o <<"Expenses:", "Family:", "Unclassified", " ", "0", " ", "C", "H", "F">>

\* Faulty variant of Assemble: the new lines ahead of the kept ones
AssembleNewFirst(kept_lines, new_posting_lines) ==
    JoinLines(new_posting_lines \o kept_lines)

\* "\n".join(kept_lines + new_posting_lines)
Assemble(kept_lines, new_posting_lines) ==
    JoinLines(kept_lines \o new_posting_lines)

\* One call replace_unclassified_posting(text, postings): whether it raised,
\* the text returned, and the posting objects as the call leaves them.
Replace(text, postings) ==
    LET lines == SplitLines(text)
        kept_lines == KeptLines(lines)
        indent == IndentOf(lines)
        loop == ValidateLoop([heap |-> postings, validated |-> <<>>,
                              raised |-> FALSE, error |-> <<>>], 1)
        new_posting_lines ==
            [k \in 1..Len(loop.validated) |->
                PostingLine(indent, loop.heap[loop.validated[k]])]
    IN  IF loop.raised
        THEN [raised |-> TRUE, error |-> loop.error, value |-> <<>>,
              postings |-> loop.heap]
        ELSE [raised |-> FALSE, error |-> <<>>,
              value |-> Assemble(kept_lines,
                            Append(new_posting_lines,
                                FallbackLine(indent, new_posting_lines))),
              postings |-> loop.heap]

(***************************************************************************)
(* A caller of the splicer: it holds a transaction block and a list of new *)
(* postings and splices them.                                              *)
(***************************************************************************)
HeaderLine == <<"2024-01-01", " ", "*", " ", "\"", "Test", "\"">>

\* An Assets posting with a trailing comment that mentions Expenses:
AssetsLine ==
    <<" ", " ", "Assets:", "Checking", " ", "-", "1", " ", "C", "H", "F",
      " ", ";", " ", "Expenses:", "Food">>

CatchAllLine == <<" ", " ", " ", " ", "Expenses:", "Family:", "Unclassified">>

IncomeLine == <<" ", " ", "Income:", "Salary", " ", "1", " ", "C", "H", "F">>

BlankLine == <<" ">>

EmptyLine == <<>>

SampleLines ==
    {HeaderLine, AssetsLine, CatchAllLine, IncomeLine, BlankLine, EmptyLine}

\* The transaction blocks: up to MaxLines sample lines joined by line breaks
\* (a last empty line gives a text that ends with a line break)
SampleBlocks ==
    {JoinLines(ls) : ls \in UNION {[1..n -> SampleLines] : n \in 0..MaxLines}}

SamplePostings ==
    {[account |-> FoodAccount, amount |-> <<"1", ",", "1">>],
     [account |-> <<"Expenses:", "Transport">>, amount |-> <<"u">>],
     [account |-> <<"Income:", "Gift">>, amount |-> <<>>]}

SamplePostingLists == UNION {[1..n -> SamplePostings] : n \in 0..MaxPostings}

InitSplice ==
    /\ entry_str \in SampleBlocks
    /\ new_postings \in SamplePostingLists
    /\ orig_postings = new_postings
    /\ result = NoResult
    /\ result2 = NoResult
    /\ pc = "start"
    /\ new_narration = <<>>
    /\ SaveIdle

\* result = replace_unclassified_posting(entry_str, new_postings)
ReplaceCall ==
    /\ pc = "start"
    /\ \E r \in {Replace(entry_str, new_postings)} :
           /\ new_postings' = r.postings
           /\ result' = [raised |-> r.raised, error |-> r.error, value |-> r.value]
           /\ pc' = IF r.raised THEN "raised" ELSE "replaced"
    /\ UNCHANGED <<orig_postings, entry_str, result2, new_narration, saveVars>>

NextSplice == ReplaceCall

SpecSplice == InitSplice /\ [][NextSplice]_vars

(***************************************************************************)
(* A caller that splices the same postings twice: the text returned by the *)
(* first call is handed to a second call together with the same list of    *)
(* posting objects.                                                        *)
(***************************************************************************)
SavingsPosting == [account |-> <<"Assets:", "Savings">>, amount |-> <<"1">>]

TwiceLines == {HeaderLine, AssetsLine, CatchAllLine, EmptyLine}

TwiceBlocks ==
    {JoinLines(ls) : ls \in UNION {[1..n -> TwiceLines] : n \in 0..MaxLines}}

\* A posting whose amount is whitespace only
BlankAmountPosting ==
    [account |-> <<"Expenses:", "Rent">>, amount |-> <<" ", "\t">>]

TwicePostingLists ==
    UNION {[1..n -> SamplePostings \cup {SavingsPosting, BlankAmountPosting}] :
              n \in 0..MaxPostings}

InitSpliceTwice ==
    /\ entry_str \in TwiceBlocks
    /\ new_postings \in TwicePostingLists
    /\ orig_postings = new_postings
    /\ result = NoResult
    /\ result2 = NoResult
    /\ pc = "start"
    /\ new_narration = <<>>
    /\ SaveIdle

\* result2 = replace_unclassified_posting(result, new_postings)
ReplaceAgain ==
    /\ pc = "replaced"
    /\ \E r \in {Replace(result.value, new_postings)} :
           /\ new_postings' = r.postings
           /\ result2' = [raised |-> r.raised, error |-> r.error, value |-> r.value]
           /\ pc' = IF r.raised THEN "raised again" ELSE "replaced again"
    /\ UNCHANGED <<orig_postings, entry_str, result, new_narration, saveVars>>

NextSpliceTwice == ReplaceCall \/ ReplaceAgain

SpecSpliceTwice == InitSpliceTwice /\ [][NextSpliceTwice]_vars

(***************************************************************************)
(* change_narration                                                        *)
(***************************************************************************)
\* str.split(c): the fragments of s between the occurrences of c
RECURSIVE SplitOn(_, _)
SplitOn(s, c) ==
    IF \E i \in 1..Len(s) : s[i] = c
    THEN LET i == CHOOSE k \in 1..Len(s) :
                      /\ s[k] = c
                      /\ \A m \in 1..(k - 1) : s[m] # c
         IN  <<Slice(s, 1, i)>> \o SplitOn(Slice(s, i + 1, Len(s) + 1), c)
    ELSE <<s>>

\* c.join(parts)
RECURSIVE JoinOn(_, _)
JoinOn(parts, c) ==
    IF parts = <<>> THEN <<>>
    ELSE IF Len(parts) = 1 THEN parts[1]
         ELSE parts[1] \o <<c>> \o JoinOn(Tail(parts), c)

\* '*' in first_line
HasFlag(first_line) == \E i \in 1..Len(first_line) : first_line[i] = "*"

\* Faulty variant of StripQuotes: the narration is taken as supplied
StripQuotesIdentity(narration) == narration

\* if new_narration: new_narration = new_narration.replace('"', '')
StripQuotes(narration) ==
    IF narration # <<>> THEN Remove(narration, "\"") ELSE narration

\* Faulty variant of IsMalformed: every quoting is accepted
IsMalformedNever(parts) == FALSE

\* len(parts) % 2 == 0
IsMalformed(parts) == Len(parts) % 2 = 0

\* Faulty variant of RemoveNarration: trailing whitespace is left in place
RemoveNarrationNoTrim(parts) == JoinOn(SubSeq(parts, 1, 3), "\"")

\* '"'.join(parts[:3]).rstrip()
RemoveNarration(parts) == RStrip(JoinOn(SubSeq(parts, 1, 3), "\""))

\* Faulty variant of SetNarration: the narration is put ahead of the old one
SetNarrationPrepend(parts, narration) ==
    JoinOn([parts EXCEPT ![4] = narration \o @], "\"")

\* Faulty variant of SetNarration: the payee fragment is overwritten
SetNarrationInPayee(parts, narration) ==
    JoinOn([parts EXCEPT ![2] = narration], "\"")

\* parts[3] = new_narration; '"'.join(parts)
SetNarration(parts, narration) ==
    JoinOn([parts EXCEPT ![4] = narration], "\"")

\* Faulty variant of AppendNarration: no space ahead of the new group
AppendNarrationNoSpace(parts, narration) ==
    JoinOn(SubSeq(parts, 1, 3), "\"") \o <<"\"">> \o narration \o <<"\"">>

\* '"'.join(parts[:3]) + ' "' + new_narration + '"'
AppendNarration(parts, narration) ==
    JoinOn(SubSeq(parts, 1, 3), "\"") \o <<" ", "\"">> \o narration \o <<"\"">>

\* lines[0] after the branches on len(parts); narration has lost its quotes
NewFirstLine(first_line, parts, narration) ==
    IF Len(parts) >= 4
    THEN IF narration = <<>>
         THEN RemoveNarration(parts)
         ELSE SetNarration(parts, narration)
    ELSE IF Len(parts) >= 3
         THEN IF narration # <<>>
              THEN AppendNarration(parts, narration)
              ELSE first_line
         ELSE first_line

\* Faulty variant of ChangeNarration: the lines after the first are lost
ChangeNarrationHeaderOnly(text, narration) ==
    LET lines == SplitLines(text)
    IN  IF lines = <<>> THEN text
        ELSE LET first_line == lines[1]
                 parts == SplitOn(first_line, "\"")
             IN  IF ~HasFlag(first_line) THEN text
                 ELSE IF IsMalformed(parts) THEN text
                 ELSE NewFirstLine(first_line, parts, StripQuotes(narration))

\* One call change_narration(text, narration): the text returned
ChangeNarration(text, narration) ==
    LET lines == SplitLines(text)
    IN  IF lines = <<>> THEN text
        ELSE LET first_line == lines[1]
                 parts == SplitOn(first_line, "\"")
             IN  IF ~HasFlag(first_line) THEN text
                 ELSE IF IsMalformed(parts) THEN text
                 ELSE JoinLines([lines EXCEPT ![1] =
                          NewFirstLine(first_line, parts, StripQuotes(narration))])

(***************************************************************************)
(* A caller of the narration rewriter: it holds a transaction block and a  *)
(* narration and rewrites the block's header.                              *)
(***************************************************************************)
\* What precedes the quoted groups: date and flag "*", date and flag "!",
\* or nothing
HeaderStarts ==
    {<<"2024-01-01", " ", "*">>, <<"2024-01-01", " ", "!">>, <<>>}

\* A quoted group, an empty one, and a group whose closing quote is missing
HeaderGroups ==
    {<<" ", "\"", "Payee", "\"">>, <<" ", "\"", "Old", " ", "text", "\"">>,
     <<" ", "\"", "\"">>, <<" ", "\"", "Open">>}

\* What follows the quoted groups: nothing, a space, a tag
HeaderEnds == {<<>>, <<" ">>, <<" ", "#tag">>}

RECURSIVE Concat(_)
Concat(seqs) == IF seqs = <<>> THEN <<>> ELSE Head(seqs) \o Concat(Tail(seqs))

SampleHeaders ==
    {start \o Concat(groups) \o end :
        start \in HeaderStarts,
        groups \in UNION {[1..n -> HeaderGroups] : n \in 0..MaxGroups},
        end \in HeaderEnds}

\* A comment line of the body that holds a "*" and a quoted text
StarCommentLine == <<" ", " ", ";", " ", "*", " ", "\"", "note", "\"">>

\* What follows the header: nothing, a line break, a body of two lines
SampleBodies ==
    {<<>>, <<"\n">>, <<"\n">> \o StarCommentLine \o <<"\n">> \o CatchAllLine}

NarrationBlocks == {h \o b : h \in SampleHeaders, b \in SampleBodies}

\* The narrations: empty, plain, blank, and with double quotes at the start,
\* at the end, inside, or alone
SampleNarrations ==
    {<<>>, <<"New">>, <<" ">>, <<"New", " ", "text">>,
     <<"\"">>, <<"\"", "\"">>, <<"\"", "New">>, <<"New", "\"">>,
     <<"New", "\"", "text">>}

InitNarration ==
    /\ entry_str \in NarrationBlocks
    /\ new_narration \in SampleNarrations
    /\ new_postings = <<>>
    /\ orig_postings = <<>>
    /\ result = NoResult
    /\ result2 = NoResult
    /\ pc = "start"
    /\ SaveIdle

\* result = change_narration(entry_str, new_narration)
ChangeCall ==
    /\ pc = "start"
    /\ \E r \in {ChangeNarration(entry_str, new_narration)} :
           result' = [raised |-> FALSE, error |-> <<>>, value |-> r]
    /\ pc' = "changed"
    /\ UNCHANGED <<new_postings, orig_postings, entry_str, result2,
                   new_narration, saveVars>>

\* result2 = change_narration(result, new_narration)
ChangeAgain ==
    /\ pc = "changed"
    /\ \E r \in {ChangeNarration(result.value, new_narration)} :
           result2' = [raised |-> FALSE, error |-> <<>>, value |-> r]
    /\ pc' = "changed again"
    /\ UNCHANGED <<new_postings, orig_postings, entry_str, result,
                   new_narration, saveVars>>

NextNarration == ChangeCall \/ ChangeAgain

SpecNarration == InitNarration /\ [][NextNarration]_vars

\* A caller that may also hand in a narration with a line break in it
LineBreakNarrations == {<<"New", "\n", "text">>, <<"\n">>}

InitNarrationAnyText ==
    /\ entry_str \in NarrationBlocks
    /\ new_narration \in SampleNarrations \cup LineBreakNarrations
    /\ new_postings = <<>>
    /\ orig_postings = <<>>
    /\ result = NoResult
    /\ result2 = NoResult
    /\ pc = "start"
    /\ SaveIdle

SpecNarrationAnyText == InitNarrationAnyText /\ [][NextNarration]_vars

(***************************************************************************)
(* FixUncategorized.save and the api_response decorator                    *)
(***************************************************************************)
\* The value None
None == [kind |-> "null"]

\* A JSON string
Str(text) == [kind |-> "str", text |-> text]

\* Faulty variant of GetNarration: an empty narration counts as none
GetNarrationEmptyIsNone(txn) ==
    IF "narration" \in DOMAIN txn /\ txn.narration # Str(<<>>)
    THEN txn.narration ELSE None

\* txn.get("narration"): None when the key is missing
GetNarration(txn) ==
    IF "narration" \in DOMAIN txn THEN txn.narration ELSE None

\* The checksum get_entry_slice returns with the slice
Sha256(text) == <<"sha256">> \o text

\* One turn of the loop over txns. acc holds the ledger file, the slices
\* written so far, the results list and the exception raised, if any.
\* lookup says how the ledger answers an unknown hash: get_entry returns
\* nothing, or it raises its own FavaAPIError.
SaveStep(acc, txn, lookup) ==
    IF txn.hash \notin DOMAIN acc.file
    THEN [acc EXCEPT !.failed = TRUE,
                     !.error = IF lookup = "none"
                               THEN <<"Entry with hash", txn.hash, "not found">>
                               ELSE <<"get_entry", txn.hash>>]
    ELSE LET slice_string == acc.file[txn.hash]
             sha256sum == Sha256(slice_string)
             spliced == Replace(slice_string, txn.postings)
             narration == GetNarration(txn)
             new_string ==
                 IF narration # None
                 THEN ChangeNarration(spliced.value, narration.text)
                 ELSE spliced.value
         IN  IF "postings" \notin DOMAIN txn
             THEN [acc EXCEPT !.failed = TRUE, !.error = <<"'postings'">>]
             ELSE IF spliced.raised
             THEN [acc EXCEPT !.failed = TRUE, !.error = spliced.error]
             ELSE IF txn.hash \in failing
             THEN [acc EXCEPT !.failed = TRUE,
                              !.error = <<"Failed to save transaction at line",
                                          txn.lineno>>]
             ELSE [acc EXCEPT
                      !.file[txn.hash] = new_string,
                      !.written = Append(acc.written,
                                      [hash |-> txn.hash, slice |-> new_string,
                                       sha256sum |-> sha256sum]),
                      !.results = Append(acc.results,
                                      [lineno |-> txn.lineno, hash |-> txn.hash,
                                       slice |-> slice_string,
                                       new_slice |-> new_string])]

\* Faulty variant of SaveLoop: an exception does not end the loop
RECURSIVE SaveLoopContinue(_, _, _, _)
SaveLoopContinue(acc, txns, i, lookup) ==
    IF i > Len(txns) THEN acc
    ELSE SaveLoopContinue(SaveStep(acc, txns[i], lookup), txns, i + 1, lookup)

\* for txn in txns: the loop ends with the list or with the first exception
RECURSIVE SaveLoop(_, _, _, _)
SaveLoop(acc, txns, i, lookup) ==
    IF i > Len(txns) \/ acc.failed THEN acc
    ELSE SaveLoop(SaveStep(acc, txns[i], lookup), txns, i + 1, lookup)

\* Faulty variant of ApiResponse: the exception is lost
ApiResponseAlwaysSuccess(acc) == [success |-> TRUE, data |-> acc.results]

\* api_response: the returned list wrapped as a success, an exception
\* turned into a failure with status 500
ApiResponse(acc) ==
    IF acc.failed
    THEN [success |-> FALSE, error |-> acc.error, status |-> 500]
    ELSE [success |-> TRUE, data |-> acc.results]

(***************************************************************************)
(* A client of the save endpoint: a ledger of two entries and one request. *)
(***************************************************************************)
PayeeHeaderLine ==
    <<"2024-01-01", " ", "*", " ", "\"", "Payee", "\"", " ", "\"", "Old", "\"">>

\* Line number and source text of the ledger's entries, by hash
SampleLinenos == [h \in {"h1", "h2", "h9"} |->
                     CASE h = "h1" -> "1" [] h = "h2" -> "5" [] OTHER -> "9"]

SampleLedger ==
    [h \in {"h1", "h2"} |->
        IF h = "h1"
        THEN JoinLines(<<PayeeHeaderLine, AssetsLine, CatchAllLine>>)
        ELSE JoinLines(<<HeaderLine, IncomeLine, AssetsLine>>)]

InvalidPosting == [account |-> <<"Expenses:", "Transport">>, amount |-> <<"u">>]

ValidPosting == [account |-> FoodAccount, amount |-> <<"1", ",", "1">>]

SamplePostingChoices == {<<>>, <<ValidPosting>>, <<InvalidPosting>>}

\* The transactions a request may hold: with no narration key, with a null
\* narration, with an empty and with a non-empty narration
SampleTxns ==
    UNION {
        {[hash |-> h, lineno |-> SampleLinenos[h], postings |-> ps],
         [hash |-> h, lineno |-> SampleLinenos[h], postings |-> ps,
          narration |-> None],
         [hash |-> h, lineno |-> SampleLinenos[h], postings |-> ps,
          narration |-> Str(<<>>)],
         [hash |-> h, lineno |-> SampleLinenos[h], postings |-> ps,
          narration |-> Str(<<"New">>)]} :
        h \in {"h1", "h2", "h9"}, ps \in SamplePostingChoices}

\* A transaction that lacks the "postings" key
TxnWithoutPostings == [hash |-> "h1", lineno |-> SampleLinenos["h1"]]

SampleRequests ==
    UNION {[1..n -> SampleTxns \cup {TxnWithoutPostings}] : n \in 0..MaxTxns}

InitSave ==
    /\ ledger = SampleLedger
    /\ failing \in {{}, {"h2"}}
    /\ request \in SampleRequests
    /\ response = <<>>
    /\ persisted = <<>>
    /\ new_postings = <<>>
    /\ orig_postings = <<>>
    /\ entry_str = <<>>
    /\ new_narration = <<>>
    /\ result = NoResult
    /\ result2 = NoResult
    /\ pc = "start"

\* One POST to the save endpoint, from request.get_json() to the response
Save ==
    /\ pc = "start"
    /\ \E lookup \in {"none", "raises"} :
         \E acc \in {SaveLoop([file |-> ledger, written |-> <<>>, results |-> <<>>,
                               failed |-> FALSE, error |-> <<>>],
                              request, 1, lookup)} :
             /\ ledger' = acc.file
             /\ persisted' = acc.written
             /\ response' = ApiResponse(acc)
    /\ pc' = "responded"
    /\ UNCHANGED <<new_postings, orig_postings, entry_str, result, result2,
                   new_narration, failing, request>>

NextSave == Save

SpecSave == InitSave /\ [][NextSave]_vars

(***************************************************************************)
(* FixUncategorized.list and its helpers                                   *)
(***************************************************************************)
\* Faulty variant of IsInInterval: the end date is excluded
IsInIntervalEndExcluded(txn, parsed_time) ==
    IF parsed_time = None THEN TRUE
    ELSE LET start_date == parsed_time.value[1]
             end_date == parsed_time.value[2]
             d == txn.date
         IN  IF start_date # None /\ d.day < start_date.day THEN FALSE
             ELSE IF end_date # None /\ d.day >= end_date.day THEN FALSE
             ELSE TRUE

\* _is_in_interval(txn, parsed_time)
IsInInterval(txn, parsed_time) ==
    IF parsed_time = None THEN TRUE
    ELSE LET start_date == parsed_time.value[1]
             end_date == parsed_time.value[2]
             d == txn.date
         IN  IF start_date # None /\ d.day < start_date.day THEN FALSE
             ELSE IF end_date # None /\ d.day > end_date.day THEN FALSE
             ELSE TRUE

\* Faulty variant of HasUncategorizedPosting: the account is tested by prefix
HasUncategorizedPostingByPrefix(txn) ==
    \E i \in 1..Len(txn.postings) :
        StartsWith(txn.postings[i].account,
                   <<"Expenses:", "Family:", "Unclassified">>)

\* _has_uncategorized_posting(txn)
HasUncategorizedPosting(txn) ==
    \E i \in 1..Len(txn.postings) :
        txn.postings[i].account = <<"Expenses:", "Family:", "Unclassified">>

\* Faulty variant of ErrorStep: a later message replaces the earlier ones
ErrorStepLastOnly(error_map, err) ==
    IF err.source # None
    THEN IF "lineno" \in DOMAIN err.source
         THEN IF err.source.lineno \in DOMAIN error_map
              THEN [error_map EXCEPT ![err.source.lineno] = <<err.message>>]
              ELSE error_map @@ (err.source.lineno :> <<err.message>>)
         ELSE error_map
    ELSE error_map

\* One turn of the loop of _get_errors:
\* error_map.setdefault(lineno, []).append(err.message)
ErrorStep(error_map, err) ==
    IF err.source # None
    THEN IF "lineno" \in DOMAIN err.source
         THEN IF err.source.lineno \in DOMAIN error_map
              THEN [error_map EXCEPT ![err.source.lineno] =
                                         Append(@, err.message)]
              ELSE error_map @@ (err.source.lineno :> <<err.message>>)
         ELSE error_map
    ELSE error_map

\* _get_errors(): the loop over self.ledger.errors, from the empty map
RECURSIVE GetErrors(_, _)
GetErrors(error_map, errors) ==
    IF errors = <<>> THEN error_map
    ELSE GetErrors(ErrorStep(error_map, Head(errors)), Tail(errors))

\* error_map.get(lineno): the list of messages, or None
ErrorsAt(error_map, lineno) ==
    IF lineno \in DOMAIN error_map
    THEN [kind |-> "list", items |-> error_map[lineno]]
    ELSE None

\* parsed_time after the try block: None without a time parameter or when
\* parse_date raises
ParsedTime(time_param) ==
    IF time_param.kind = "parsed" THEN time_param ELSE None

\* The dict built for one posting of the listing
ListedPosting(p) ==
    [account |-> p.account,
     amount |-> IF p.units # None
                THEN p.units.number \o <<" ">> \o p.units.currency
                ELSE <<>>,
     editable |-> StartsWith(p.account, <<"Expenses:">>)
                      \/ StartsWith(p.account, <<"Income:">>)]

\* The postings listed for a transaction: all but those of the catch-all
\* account
ListedPostings(postings) ==
    LET shown == SelectSeq(postings,
                     LAMBDA p : p.account # <<"Expenses:", "Family:", "Unclassified">>)
    IN  [i \in 1..Len(shown) |-> ListedPosting(shown[i])]

\* The dict appended to entries for one transaction
ListedEntry(txn, error_map) ==
    [lineno |-> txn.lineno,
     hash |-> txn.hash,
     date |-> txn.date,
     narration |-> IF txn.payee # <<>> THEN txn.narration ELSE <<>>,
     payee |-> IF txn.payee # <<>> THEN txn.payee ELSE txn.narration,
     errors |-> ErrorsAt(error_map, txn.lineno),
     postings |-> ListedPostings(txn.postings),
     unclassified |-> HasUncategorizedPosting(txn)]

\* The loop over the ledger's transactions: those outside the interval are
\* skipped
RECURSIVE ListLoop(_, _, _, _)
ListLoop(entries, txns, parsed_time, error_map) ==
    IF txns = <<>> THEN entries
    ELSE ListLoop(IF IsInInterval(Head(txns), parsed_time)
                  THEN Append(entries, ListedEntry(Head(txns), error_map))
                  ELSE entries,
                  Tail(txns), parsed_time, error_map)

\* expense_accounts(): the accounts offered for categorizing, sorted
ExpenseAccounts(accounts) ==
    SelectSeq(accounts,
        LAMBDA acc :
            /\ \/ StartsWith(acc, <<"Expenses:", "Family:">>)
               \/ StartsWith(acc, <<"Expenses:", "BusinessStukas:">>)
               \/ StartsWith(acc, <<"Income:", "BusinessStukas:">>)
            /\ ~StartsWith(acc, <<"Expenses:", "Family:", "Unclassified">>))

(***************************************************************************)
(* A client of the list endpoint: a ledger of four transactions on days    *)
(* 1..MaxDate, its list of errors, and a request with or without a time    *)
(* parameter.                                                              *)
(***************************************************************************)
Days == 1..MaxDate

Day(n) == [kind |-> "date", day |-> n]

CatchAllAccount == <<"Expenses:", "Family:", "Unclassified">>

CheckingUnits == [number |-> <<"-", "1">>, currency |-> <<"C", "H", "F">>]

FoodUnits == [number |-> <<"1">>, currency |-> <<"C", "H", "F">>]

\* The postings of the four transactions: one with a catch-all posting, one
\* categorized, one whose account only starts like the catch-all account,
\* one with two catch-all postings and nothing else
SampleTxnPostings ==
    <<<<[account |-> <<"Assets:", "Checking">>, units |-> CheckingUnits],
        [account |-> CatchAllAccount, units |-> None]>>,
      <<[account |-> <<"Assets:", "Checking">>, units |-> CheckingUnits],
        [account |-> <<"Expenses:", "Family:", "Food">>, units |-> FoodUnits]>>,
      <<[account |-> <<"Assets:", "Checking">>, units |-> CheckingUnits],
        [account |-> <<"Expenses:", "Family:", "Unclassified", ":Old">>,
         units |-> FoodUnits]>>,
      <<[account |-> CatchAllAccount, units |-> FoodUnits],
        [account |-> CatchAllAccount, units |-> None]>>>>

\* The transaction at position i of the ledger, dated d; the second and the
\* fourth have no payee
SampleTransaction(i, d) ==
    [lineno |-> 10 * i,
     hash |-> <<"h", i>>,
     date |-> Day(d),
     payee |-> IF i % 2 = 1 THEN <<"Payee">> ELSE <<>>,
     narration |-> <<"Old">>,
     postings |-> SampleTxnPostings[i]]

SampleTransactions ==
    {[i \in 1..4 |-> SampleTransaction(i, dates[i])] : dates \in [1..4 -> Days]}

\* The ledger's errors: with a line number, with an empty source, with no
\* source
ErrorA == [source |-> [kind |-> "dict", lineno |-> 10], message |-> <<"A">>]

ErrorB == [source |-> [kind |-> "dict", lineno |-> 10], message |-> <<"B">>]

ErrorC == [source |-> [kind |-> "dict", lineno |-> 20], message |-> <<"C">>]

ErrorNoLine == [source |-> [kind |-> "dict"], message |-> <<"D">>]

ErrorNoSource == [source |-> None, message |-> <<"E">>]

SampleErrorLists ==
    {<<>>, <<ErrorA>>, <<ErrorNoSource>>, <<ErrorNoLine>>,
     <<ErrorA, ErrorB>>, <<ErrorB, ErrorA>>,
     <<ErrorA, ErrorNoSource, ErrorC, ErrorNoLine>>,
     <<ErrorB, ErrorC, ErrorA>>}

\* self.ledger.accounts, in sorted order
SampleAccounts ==
    <<<<"Assets:", "Checking">>,
      <<"Expenses:", "BusinessStukas:", "Travel">>,
      <<"Expenses:", "Family:", "Food">>,
      <<"Expenses:", "Family:", "Unclassified">>,
      <<"Expenses:", "Food">>,
      <<"Income:", "BusinessStukas:", "Sales">>,
      <<"Income:", "Salary">>>>

\* The time parameter of the request and what parse_date makes of it: no
\* parameter, a parameter parse_date raises on, or a parameter parsed into
\* a pair of dates, either of which may be None
SampleTimes ==
    {[kind |-> "absent"], [kind |-> "raises"]}
        \cup {[kind |-> "parsed", value |-> <<s, e>>] :
                s \in {None} \cup {Day(n) : n \in Days},
                e \in {None} \cup {Day(n) : n \in Days}}

InitList ==
    /\ \E txns \in SampleTransactions, errors \in SampleErrorLists :
           ledger = [transactions |-> txns, errors |-> errors,
                     accounts |-> SampleAccounts]
    /\ request \in SampleTimes
    /\ response = <<>>
    /\ failing = {}
    /\ persisted = <<>>
    /\ new_postings = <<>>
    /\ orig_postings = <<>>
    /\ entry_str = <<>>
    /\ new_narration = <<>>
    /\ result = NoResult
    /\ result2 = NoResult
    /\ pc = "start"

\* One GET of the list endpoint, from the time parameter to the response;
\* result keeps what the call of _get_errors returned
List ==
    /\ pc = "start"
    /\ \E error_map \in {GetErrors(<<>>, ledger.errors)} :
         \E entries \in {ListLoop(<<>>, ledger.transactions,
                                  ParsedTime(request), error_map)} :
             /\ result' = [raised |-> FALSE, error |-> <<>>, value |-> error_map]
             /\ response' =
                    [success |-> TRUE,
                     transactions |-> entries,
                     expense_accounts |-> ExpenseAccounts(ledger.accounts)]
    /\ pc' = "listed"
    /\ UNCHANGED <<new_postings, orig_postings, entry_str, result2,
                   new_narration, ledger, failing, request, persisted>>

NextList == List

SpecList == InitList /\ [][NextList]_vars

(***************************************************************************)
(* Claims about the amount normalizer (checked under SpecNormalize).       *)
(***************************************************************************)
\* The raw amount the caller put into the posting ("" when it put none)
RawAmount == GetAmount(orig_postings[1])

FirstCallDone == pc # "start"

SecondCallDone == pc \in {"renormalized", "raised again"}

\* s consists of whitespace only (or is empty)
IsBlank(s) == \A i \in 1..Len(s) : IsSpace(s[i])

\* Number of occurrences of the character c in s
Count(s, c) == Cardinality({i \in 1..Len(s) : s[i] = c})

\* The amount grammar of the specification, section 4.1, as a scanner:
\* an optional minus and optional spaces, digits with "." or "," separated
\* digit groups, optional whitespace, an optional 3-letter currency code.
GrammarStep(q, c) ==
    CASE q = "start" /\ c = "-" -> "lead"
      [] q \in {"start", "lead"} /\ IsSpace(c) -> "lead"
      [] q \in {"start", "lead", "num", "sep"} /\ IsDigit(c) -> "num"
      [] q = "num" /\ c \in {".", ","} -> "sep"
      [] q \in {"num", "gap"} /\ IsSpace(c) -> "gap"
      [] q \in {"num", "gap"} /\ IsLetter(c) -> "cur1"
      [] q = "cur1" /\ IsLetter(c) -> "cur2"
      [] q = "cur2" /\ IsLetter(c) -> "cur3"
      [] OTHER -> "reject"

RECURSIVE GrammarRun(_, _)
GrammarRun(q, s) ==
    IF s = <<>> THEN q ELSE GrammarRun(GrammarStep(q, Head(s)), Tail(s))

GrammarAccepts(s) == GrammarRun("start", s) \in {"num", "gap", "cur3"}

\* C1: normalizing the posting returned by a successful normalization
\* succeeds and yields exactly the same amount string.
C1_NormalizeIdempotent ==
    SecondCallDone => (~result2.raised /\ result2.value = result.value)

\* C1 witness: "- 1,1" (minus followed by a space, a comma, no currency) has
\* been normalized twice.
C1_Witness ==
    /\ pc = "renormalized"
    /\ RawAmount = <<"-", " ", "1", ",", "1">>
    /\ result.value = <<"-", "1", "1", " ", "C", "H", "F">>

\* C2: every accepted non-empty amount becomes "<number> <currency>" with
\* exactly one space, where the number has no comma, no space and at most
\* one ".".
C2_SingleDecimalPoint ==
    (FirstCallDone /\ ~result.raised /\ ~IsBlank(RawAmount)) =>
        LET v == result.value
            number == Slice(v, 1, Len(v) - 3)
        IN  /\ Len(v) >= 5
            /\ v[Len(v) - 3] = " "
            /\ Count(v, " ") = 1
            /\ Count(number, ",") = 0
            /\ Count(number, ".") <= 1

\* C3: the currency of the normalized amount is the input's 3-letter code in
\* upper case when the input ends with one, and CHF otherwise.
C3_CurrencyUpperOrDefault ==
    (FirstCallDone /\ ~result.raised /\ ~IsBlank(RawAmount)) =>
        LET a == Strip(RawAmount)
            v == result.value
            given == Slice(a, Len(a) - 2, Len(a) + 1)
            hasCode == Len(a) >= 3 /\ \A i \in 1..3 : IsLetter(given[i])
        IN  /\ Len(v) >= 3
            /\ Slice(v, Len(v) - 2, Len(v) + 1) =
                   (IF hasCode THEN [i \in 1..3 |-> UpperChar(given[i])]
                    ELSE <<"C", "H", "F">>)

\* C3 witness: "1uCu" was normalized to "1 UCU".
C3_Witness ==
    /\ pc = "normalized"
    /\ RawAmount = <<"1", "u", "C", "u">>
    /\ result.value = <<"1", " ", "U", "C", "U">>

\* C4: a non-empty trimmed amount makes the call fail exactly when it does
\* not match the amount grammar from its first to its last character, and
\* the error then carries the offending string.
C4_FailsIffNoGrammarMatch ==
    (FirstCallDone /\ ~IsBlank(RawAmount)) =>
        /\ result.raised <=> ~GrammarAccepts(Strip(RawAmount))
        /\ result.raised =>
               result.error = <<"Invalid amount format: ">> \o Strip(RawAmount)

\* C4 witness: "1uuuu" (a 4-letter currency) was rejected.
C4_Witness ==
    /\ pc = "raised"
    /\ RawAmount = <<"1", "u", "u", "u", "u">>
    /\ result.raised

\* C5: an empty, whitespace-only or absent amount is returned as "" without
\* an error and without a default currency.
C5_BlankAmountShortCircuits ==
    (FirstCallDone /\ IsBlank(RawAmount)) =>
        /\ ~result.raised
        /\ result.value = <<>>
        /\ new_postings[1].amount = <<>>

\* C5 witness: the whitespace-only amount "  " was normalized.
C5_Witness ==
    /\ pc = "normalized"
    /\ RawAmount = <<" ", " ">>
    /\ result.value = <<>>

\* C6: the normalizer has no side effect: the caller's posting object holds
\* its original amount after the call returns.
C6_NoSideEffect ==
    (FirstCallDone /\ ~result.raised) => new_postings = orig_postings

\* C26: when the normalizer fails on an invalid amount, the posting is as
\* the caller built it: its amount still holds the raw string, untrimmed.
C26_FailureLeavesPostingUntouched ==
    (pc = "raised") =>
        /\ result.raised
        /\ new_postings = orig_postings
        /\ GetAmount(new_postings[1]) = RawAmount

\* C26 witness: the raw amount " 1u" (no 3-letter currency) was rejected and
\* the posting still holds " 1u", leading space included.
C26_Witness ==
    /\ pc = "raised"
    /\ orig_postings = <<[account |-> FoodAccount, amount |-> <<" ", "1", "u">>]>>
    /\ new_postings[1].amount = <<" ", "1", "u">>
    /\ result.error = <<"Invalid amount format: ", "1", "u">>

(***************************************************************************)
(* Claims about the posting splicer (checked under SpecSplice).            *)
(***************************************************************************)
ReplaceDone == pc # "start"

\* The lines of the block handed to the splicer, and of the text it returned
OrigLines == SplitLines(entry_str)

ResultLines == SplitLines(result.value)

\* The posting's amount passes normalization: it is blank, or its trimmed
\* form matches the amount grammar
Survives(p) == IsBlank(GetAmount(p)) \/ GrammarAccepts(Strip(GetAmount(p)))

\* The new postings that survive, in the order the caller listed them
Survivors == SelectSeq(orig_postings, Survives)

\* The line, without its leading whitespace, starts with neither "Expenses:"
\* nor "Income:"
StaysInBlock(line) ==
    LET t == LStrip(line)
    IN  t = <<>> \/ t[1] \notin {"Expenses:", "Income:"}

\* The part of the result that follows the lines kept from the block and
\* precedes the last line
InsertedLines ==
    SubSeq(ResultLines, Len(SelectSeq(OrigLines, StaysInBlock)) + 1,
           Len(ResultLines) - 1)

C8_FallbackBySurvivors ==
    ReplaceDone =>
        /\ Len(ResultLines) >= 1
        /\ LStrip(ResultLines[Len(ResultLines)]) =
               (IF Len(Survivors) = 0
                THEN <<"Expenses:", "Family:", "Unclassified">>
                ELSE <<"Expenses:", "Family:", "Unclassified", " ", "0", " ", "C", "H", "F">>)

\* C8 witness: the only new posting was invalid, and the bare fallback line
\* was appended.
C8_Witness ==
    /\ pc = "replaced"
    /\ orig_postings = <<[account |-> <<"Expenses:", "Transport">>, amount |-> <<"u">>]>>
    /\ entry_str = JoinLines(<<HeaderLine, AssetsLine, CatchAllLine>>)
    /\ ResultLines[Len(ResultLines)] = <<" ", " ", "Expenses:", "Family:", "Unclassified">>

\* C9: the result is the kept lines in their order, then one line
\* "<indent><account> <amount>" per surviving posting in list order, then the
\* fallback line, joined by line breaks: kept + surviving + 1 lines.
C9_ResultLayout ==
    ReplaceDone =>
        LET kept == SelectSeq(OrigLines, StaysInBlock)
            indent == IndentOf(OrigLines)
            inserted == [k \in 1..Len(Survivors) |->
                            indent \o Survivors[k].account \o <<" ">>
                                   \o Normalize(Survivors[k]).posting.amount]
            fallback == indent \o <<"Expenses:", "Family:", "Unclassified">>
                               \o (IF Len(Survivors) = 0 THEN <<>>
                                   ELSE <<" ", "0", " ", "C", "H", "F">>)
        IN  /\ result.value = JoinLines(kept \o inserted \o <<fallback>>)
            /\ Len(ResultLines) = Len(kept) + Len(Survivors) + 1

\* C9 witness: header, Assets line and catch-all line spliced with a valid and
\* an empty-amount posting.
C9_Witness ==
    /\ pc = "replaced"
    /\ entry_str = JoinLines(<<HeaderLine, AssetsLine, CatchAllLine>>)
    /\ orig_postings = <<[account |-> FoodAccount, amount |-> <<"1", ",", "1">>],
                         [account |-> <<"Income:", "Gift">>, amount |-> <<>>]>>
    /\ ResultLines =
           <<HeaderLine,
             AssetsLine,
             <<" ", " ", "Expenses:", "Food", " ", "1", "1", " ", "C", "H", "F">>,
             <<" ", " ", "Income:", "Gift", " ">>,
             <<" ", " ", "Expenses:", "Family:", "Unclassified", " ", "0", " ", "C", "H", "F">>>>

\* C10: the lines of the result ahead of the inserted ones are exactly the
\* original lines that do not start (after leading whitespace) with
\* "Expenses:" or "Income:", unmodified and in order; every original line
\* that does start with one of them is gone.
C10_KeepsOtherLinesDropsExpensesIncome ==
    ReplaceDone =>
        LET head == SubSeq(ResultLines, 1, Len(ResultLines) - Len(Survivors) - 1)
        IN  /\ head = SelectSeq(OrigLines, StaysInBlock)
            /\ \A k \in 1..Len(head) :
                   /\ ~StartsWith(LStrip(head[k]), <<"Expenses:">>)
                   /\ ~StartsWith(LStrip(head[k]), <<"Income:">>)

\* C10 witness: an Income line and the catch-all line were dropped, the
\* Assets line that mentions Expenses: further on was kept.
C10_Witness ==
    /\ pc = "replaced"
    /\ entry_str = JoinLines(<<IncomeLine, AssetsLine, CatchAllLine>>)
    /\ orig_postings = <<>>
    /\ ResultLines = <<AssetsLine, <<" ", " ", "Expenses:", "Family:", "Unclassified">>>>

\* Number of whitespace characters at the start of the line
LeadingWhitespace(line) ==
    CHOOSE n \in 0..Len(line) :
        /\ \A k \in 1..n : IsSpace(line[k])
        /\ n = Len(line) \/ ~IsSpace(line[n + 1])

\* The positive indents observed among the lines of the original block
PositiveIndents ==
    {LeadingWhitespace(OrigLines[i]) : i \in 1..Len(OrigLines)} \ {0}

\* The smallest of them, or 2 when no line is indented
CanonicalIndent ==
    IF PositiveIndents = {} THEN 2
    ELSE CHOOSE n \in PositiveIndents : \A m \in PositiveIndents : n <= m

\* C11: every inserted line (the new posting lines and the fallback line)
\* is indented by exactly as many spaces as the minimum positive indent
\* observed among the original lines, or by 2 spaces if no line is indented.
C11_InsertedIndentIsMinimum ==
    ReplaceDone =>
        LET n == CanonicalIndent
            added == Append(InsertedLines, ResultLines[Len(ResultLines)])
        IN  \A k \in 1..Len(added) :
                /\ LeadingWhitespace(added[k]) = n
                /\ \A j \in 1..n : added[k][j] = " "

\* C11 witness: the only indented line of the block has 4 spaces, and the new
\* posting line and the fallback line got 4 spaces.
C11_Witness ==
    /\ pc = "replaced"
    /\ entry_str = JoinLines(<<HeaderLine, CatchAllLine>>)
    /\ orig_postings = <<[account |-> FoodAccount, amount |-> <<"1", ",", "1">>]>>
    /\ ResultLines =
           <<HeaderLine,
             <<" ", " ", " ", " ", "Expenses:", "Food", " ", "1", "1", " ", "C", "H", "F">>,
             <<" ", " ", " ", " ", "Expenses:", "Family:", "Unclassified",
               " ", "0", " ", "C", "H", "F">>>>

\* The lines of the original block that start, after leading whitespace,
\* with "Expenses:" or "Income:"
RemovableLines == SelectSeq(OrigLines, LAMBDA line : ~StaysInBlock(line))

\* The only removable line of the block is the bare catch-all line
OnlyRemovableIsBareCatchAll ==
    /\ Len(RemovableLines) = 1
    /\ LStrip(RemovableLines[1]) = <<"Expenses:", "Family:", "Unclassified">>

ReplacedTwice == pc = "replaced again"

\* Every posting of the caller's list that the splicer inserts names an
\* account under Expenses: or Income:
SurvivorsAreExpensesOrIncome ==
    \A i \in 1..Len(orig_postings) :
        Survives(orig_postings[i]) =>
            /\ orig_postings[i].account # <<>>
            /\ orig_postings[i].account[1] \in {"Expenses:", "Income:"}

\* C13 as stated: splicing the same postings into the splicer's own result
\* gives that result back, for every block and every list of postings.
C13_SpliceTwiceIsSpliceOnce ==
    ReplacedTwice => result2.value = result.value

\* C13 as amended: splicing the same postings into the splicer's own result
\* gives that result back, for every block and every list of postings whose
\* surviving postings name accounts that start with Expenses: or Income:.
C13_SpliceTwiceIsSpliceOnceForExpenses ==
    (ReplacedTwice /\ SurvivorsAreExpensesOrIncome) =>
        result2.value = result.value

\* C13 witness: a Food posting spliced twice into a block with a catch-all
\* line; the first call changed the block, the second changed nothing more.
C13_Witness ==
    /\ pc = "replaced again"
    /\ entry_str = JoinLines(<<HeaderLine, AssetsLine, CatchAllLine>>)
    /\ orig_postings = <<[account |-> FoodAccount, amount |-> <<"1", ",", "1">>]>>
    /\ result.value # entry_str
    /\ result2.value = result.value

(***************************************************************************)
(* Claims about the narration rewriter (checked under SpecNarration).      *)
(***************************************************************************)
\* The first call of the narration rewriter has returned
ChangeDone == pc \in {"changed", "changed again"}

\* The header line of the block handed in, and of the block returned
OrigHeader == IF OrigLines = <<>> THEN <<>> ELSE OrigLines[1]

ResultHeader == IF ResultLines = <<>> THEN <<>> ELSE ResultLines[1]

\* The fragments of the header handed in, between its double quotes
Fragments == SplitOn(OrigHeader, "\"")

\* The supplied narration without its double quotes
CleanNarration == SelectSeq(new_narration, LAMBDA c : c # "\"")

\* The header has the flag marker and balanced quotes
Accepted ==
    /\ OrigLines # <<>>
    /\ \E i \in 1..Len(OrigHeader) : OrigHeader[i] = "*"
    /\ Len(Fragments) % 2 = 1

\* s without the whitespace at its end
WithoutTrailingSpace(s) ==
    CHOOSE p \in {SubSeq(s, 1, n) : n \in 0..Len(s)} :
        /\ p = <<>> \/ ~IsSpace(p[Len(p)])
        /\ \A k \in (Len(p) + 1)..Len(s) : IsSpace(s[k])

\* C14: when the header has the flag marker, has an odd number of at least
\* 4 fragments and the narration is non-empty once its quotes are stripped,
\* the new header is the old one with exactly fragment 3 (counted from 0)
\* replaced by the narration, the fragments joined by double quotes again.
C14_ReplacesFragmentThree ==
    (ChangeDone /\ Accepted /\ Len(Fragments) >= 4 /\ CleanNarration # <<>>) =>
        /\ ResultHeader = JoinOn([Fragments EXCEPT ![4] = CleanNarration], "\"")
        /\ SplitOn(ResultHeader, "\"") = [Fragments EXCEPT ![4] = CleanNarration]

\* C14 witness: 2024-01-01 * "Payee" "Old text" became
\* 2024-01-01 * "Payee" "New".
C14_Witness ==
    /\ pc = "changed"
    /\ entry_str = <<"2024-01-01", " ", "*", " ", "\"", "Payee", "\"",
                     " ", "\"", "Old", " ", "text", "\"">>
    /\ new_narration = <<"New">>
    /\ result.value = <<"2024-01-01", " ", "*", " ", "\"", "Payee", "\"",
                        " ", "\"", "New", "\"">>

\* C15: when the header has both payee and narration and the narration is
\* empty (as supplied, or once its quotes are stripped), the new header is
\* fragments 0..2 joined by double quotes, without trailing whitespace: the
\* payee group stays, the narration group is gone.
C15_EmptyNarrationRemovesGroup ==
    (ChangeDone /\ Accepted /\ Len(Fragments) >= 4 /\ CleanNarration = <<>>) =>
        ResultHeader =
            WithoutTrailingSpace(
                Fragments[1] \o <<"\"">> \o Fragments[2] \o <<"\"">> \o Fragments[3])

\* C15 witness: 2024-01-01 * "Payee" "Old text" with the empty narration
\* became 2024-01-01 * "Payee".
C15_Witness ==
    /\ pc = "changed"
    /\ entry_str = <<"2024-01-01", " ", "*", " ", "\"", "Payee", "\"",
                     " ", "\"", "Old", " ", "text", "\"">>
    /\ new_narration = <<>>
    /\ result.value = <<"2024-01-01", " ", "*", " ", "\"", "Payee", "\"">>

\* C16 as stated: when the header has exactly 3 fragments, a non-empty
\* supplied narration is appended, without its quotes, as a new quoted group
\* after the header text, and an empty one leaves the header unchanged.
C16_AppendsWhenSuppliedNonEmpty ==
    (ChangeDone /\ Accepted /\ Len(Fragments) = 3) =>
        IF new_narration # <<>>
        THEN ResultHeader =
                 OrigHeader \o <<" ", "\"">> \o CleanNarration \o <<"\"">>
        ELSE ResultHeader = OrigHeader

\* C16 as amended: when the header has exactly 3 fragments, a narration that
\* is non-empty once its quotes are stripped is appended as a new quoted
\* group after the header text, and a narration that is empty once its
\* quotes are stripped leaves the header unchanged.
C16_AppendsWhenStrippedNonEmpty ==
    (ChangeDone /\ Accepted /\ Len(Fragments) = 3) =>
        IF CleanNarration # <<>>
        THEN ResultHeader =
                 OrigHeader \o <<" ", "\"">> \o CleanNarration \o <<"\"">>
        ELSE ResultHeader = OrigHeader

\* C16 witness: 2024-01-01 * "Payee" became 2024-01-01 * "Payee" "New".
C16_Witness ==
    /\ pc = "changed"
    /\ entry_str = <<"2024-01-01", " ", "*", " ", "\"", "Payee", "\"">>
    /\ new_narration = <<"New">>
    /\ result.value = <<"2024-01-01", " ", "*", " ", "\"", "Payee", "\"",
                        " ", "\"", "New", "\"">>

\* C17: the narration rewriter never fails, and it returns the text it was
\* given when the text has no lines, when the first line has no "*", or when
\* the first line splits on double quotes into an even number of fragments.
C17_MalformedInputUnchanged ==
    ChangeDone =>
        /\ ~result.raised
        /\ ~Accepted => result.value = entry_str

\* C17 witness: a header with a quote that is never closed, followed by a
\* line break, came back as it was.
C17_Witness ==
    /\ pc = "changed"
    /\ entry_str = <<"2024-01-01", " ", "*", " ", "\"", "Payee", "\"",
                     " ", "\"", "Open", "\n">>
    /\ new_narration = <<"New">>
    /\ result.value = entry_str

\* C18: whatever the supplied narration, a header with balanced quotes (an
\* odd number of fragments) yields a header with balanced quotes, and where
\* a narration is inserted it is the supplied one without its quotes.
C18_QuotesStrippedBalanceKept ==
    (ChangeDone /\ OrigLines # <<>> /\ Len(Fragments) % 2 = 1) =>
        /\ Len(SplitOn(ResultHeader, "\"")) % 2 = 1
        /\ (Accepted /\ Len(Fragments) >= 3 /\ CleanNarration # <<>>) =>
               SplitOn(ResultHeader, "\"")[4] = CleanNarration

\* C18 witness: the narration New" was inserted as New.
C18_Witness ==
    /\ pc = "changed"
    /\ entry_str = <<"2024-01-01", " ", "*", " ", "\"", "Payee", "\"">>
    /\ new_narration = <<"New", "\"">>
    /\ result.value = <<"2024-01-01", " ", "*", " ", "\"", "Payee", "\"",
                        " ", "\"", "New", "\"">>

\* The text of the header that follows the narration group
TextAfterNarration ==
    JoinOn(SubSeq(Fragments, 5, Len(Fragments)), "\"")

\* s ends with t
EndsWith(s, t) ==
    /\ Len(s) >= Len(t)
    /\ SubSeq(s, Len(s) - Len(t) + 1, Len(s)) = t

\* C19: for every accepted header with payee and narration, whether the
\* narration is replaced or removed, the new header starts with the date,
\* flag and payee group of the old one and ends with the text that followed
\* the narration group (such as tags or links).
C19_EditPreservesRestOfHeader ==
    (ChangeDone /\ Accepted /\ Len(Fragments) >= 4) =>
        /\ StartsWith(ResultHeader,
               Fragments[1] \o <<"\"">> \o Fragments[2] \o <<"\"">>)
        /\ EndsWith(ResultHeader, WithoutTrailingSpace(TextAfterNarration))

(***************************************************************************)
(* Claims about the save endpoint (checked under SpecSave).                *)
(***************************************************************************)
\* The save endpoint has answered
SaveDone == pc = "responded"

\* The transaction names no entry of the ledger
IsUnknown(txn) == txn.hash \notin DOMAIN ledger

\* The ledger file refuses to write the slice of the transaction's entry
IsRefused(txn) == txn.hash \in failing

\* The transaction names an entry of the ledger whose slice can be written,
\* and it has its list of postings
CanBeSaved(txn) ==
    ~IsUnknown(txn) /\ ~IsRefused(txn) /\ "postings" \in DOMAIN txn

\* The text holds the tokens t next to each other
Contains(text, t) ==
    \E i \in 0..(Len(text) - Len(t)) : SubSeq(text, i + 1, i + Len(t)) = t

\* The last line of a text
LastLine(text) == SplitLines(text)[Len(SplitLines(text))]

\* C20: invalid amounts among the new postings never make a save fail: a
\* request fails only if one of its transactions names an unknown entry or
\* an entry whose slice cannot be written (or has no list of postings at
\* all), and otherwise it succeeds with
\* every transaction written; no written block holds the text of a posting
\* with an invalid amount, and such a block ends with the catch-all line.
C20_InvalidAmountsNeverFailSave ==
    SaveDone =>
        /\ ~response.success =>
               \E k \in 1..Len(request) : ~CanBeSaved(request[k])
        /\ (\A k \in 1..Len(request) : CanBeSaved(request[k])) =>
               response.success /\ Len(persisted) = Len(request)
        /\ \A k \in 1..Len(persisted) :
               \A i \in 1..Len(request[k].postings) :
                   LET p == request[k].postings[i]
                   IN  ~Survives(p) =>
                           /\ ~Contains(persisted[k].slice,
                                        p.account \o <<" ">> \o p.amount)
                           /\ StartsWith(LStrip(LastLine(persisted[k].slice)),
                                  <<"Expenses:", "Family:", "Unclassified">>)

\* C20 witness: a request whose only new posting has an invalid amount was
\* answered with a success, and the block written ends with the bare
\* catch-all line.
C20_Witness ==
    /\ pc = "responded"
    /\ request = <<[hash |-> "h1", lineno |-> "1",
                    postings |-> <<[account |-> <<"Expenses:", "Transport">>,
                                    amount |-> <<"u">>]>>]>>
    /\ response.success
    /\ Len(persisted) = 1
    /\ persisted[1].slice =
           JoinLines(<<PayeeHeaderLine, AssetsLine,
                       <<" ", " ", "Expenses:", "Family:", "Unclassified">>>>)

\* The transactions ahead of which nothing stops the loop: the number of
\* leading transactions of the request that can be saved
RECURSIVE SavedPrefix(_)
SavedPrefix(k) ==
    IF k < Len(request) /\ CanBeSaved(request[k + 1])
    THEN SavedPrefix(k + 1) ELSE k

\* C21: the save endpoint always answers with a structured response: a
\* success carries the data list, a failure carries a non-empty error
\* message and status 500; a request with no transactions is answered with
\* a success and an empty data list; a request with a transaction whose hash
\* matches no entry, or whose slice the ledger file refuses to write, is
\* answered with a failure.
C21_AlwaysStructuredResponse ==
    SaveDone =>
        /\ "success" \in DOMAIN response
        /\ response.success => DOMAIN response = {"success", "data"}
        /\ ~response.success =>
               /\ DOMAIN response = {"success", "error", "status"}
               /\ response.error # <<>>
               /\ response.status = 500
        /\ request = <<>> => response = [success |-> TRUE, data |-> <<>>]
        /\ (\E k \in 1..Len(request) :
                IsUnknown(request[k]) \/ IsRefused(request[k])) =>
               ~response.success

\* C21 witness: a request for the unknown hash h9 was answered with the
\* failure "Entry with hash h9 not found" and status 500.
C21_Witness ==
    /\ pc = "responded"
    /\ request = <<[hash |-> "h9", lineno |-> "9", postings |-> <<>>]>>
    /\ response = [success |-> FALSE,
                   error |-> <<"Entry with hash", "h9", "not found">>,
                   status |-> 500]

\* The source text of the entry of the k-th transaction when its turn came:
\* what the latest earlier write for the same hash left, or the text the
\* ledger was loaded with
SliceBefore(k) ==
    LET earlier == {j \in 1..(k - 1) : persisted[j].hash = request[k].hash}
    IN  IF earlier = {} THEN SampleLedger[request[k].hash]
        ELSE persisted[CHOOSE j \in earlier : \A m \in earlier : m <= j].slice

\* The request supplied a narration string with the transaction
SuppliedNarration(txn) ==
    "narration" \in DOMAIN txn /\ txn.narration.kind = "str"

\* C22: for every transaction saved, the text written is the splicer's
\* result on the entry's raw slice, passed through the narration rewriter
\* exactly when the request supplied a narration string (the empty string
\* included; an absent or null narration leaves the splicer's result as it
\* is), and it is written together with the checksum of the raw slice.
C22_SpliceThenNarrationThenPersist ==
    SaveDone =>
        \A k \in 1..Len(persisted) :
            LET txn == request[k]
                raw == SliceBefore(k)
                spliced == Replace(raw, txn.postings).value
            IN  /\ persisted[k].hash = txn.hash
                /\ persisted[k].sha256sum = Sha256(raw)
                /\ persisted[k].slice =
                       IF SuppliedNarration(txn)
                       THEN ChangeNarration(spliced, txn.narration.text)
                       ELSE spliced

\* C22 witness: entry h1 saved with a Food posting and the empty narration:
\* the text written has the new posting lines and no narration group, and
\* carries the checksum of the text the ledger was loaded with.
C22_Witness ==
    /\ pc = "responded"
    /\ Len(request) = 1
    /\ Len(persisted) = 1
    /\ request[1].hash = "h1"
    /\ SuppliedNarration(request[1])
    /\ request[1].narration.text = <<>>
    /\ persisted[1].sha256sum =
           Sha256(JoinLines(<<PayeeHeaderLine, AssetsLine, CatchAllLine>>))
    /\ persisted[1].slice =
           JoinLines(<<<<"2024-01-01", " ", "*", " ", "\"", "Payee", "\"">>,
                       AssetsLine,
                       <<" ", " ", "Expenses:", "Food", " ", "1", "1", " ",
                         "C", "H", "F">>,
                       <<" ", " ", "Expenses:", "Family:", "Unclassified",
                         " ", "0", " ", "C", "H", "F">>>>)

\* The text the ledger file holds for hash h once the first n transactions
\* of the request are written
FileAfter(h, n) ==
    LET writes == {j \in 1..n : persisted[j].hash = h}
    IN  IF writes = {} THEN SampleLedger[h]
        ELSE persisted[CHOOSE j \in writes : \A m \in writes : m <= j].slice

\* C27: the transactions are handled in the order of the list and the first
\* failure ends the request: the transactions ahead of the first one that
\* cannot be saved are written, one write each and in order, and the ledger
\* file keeps them; that transaction and the later ones are not written; the
\* response is a failure that carries no data.
C27_StopsAtFirstFailure ==
    SaveDone =>
        LET n == SavedPrefix(0)
        IN  /\ Len(persisted) = n
            /\ \A k \in 1..n : persisted[k].hash = request[k].hash
            /\ \A h \in DOMAIN ledger : ledger[h] = FileAfter(h, n)
            /\ n < Len(request) =>
                   /\ ~response.success
                   /\ "data" \notin DOMAIN response

\* C27 witness: the first transaction (h1) was written and the ledger file
\* keeps it, the second names the unknown hash h9; the response is a failure.
C27_Witness ==
    /\ pc = "responded"
    /\ Len(request) >= 2
    /\ request[1].hash = "h1"
    /\ request[2].hash = "h9"
    /\ Len(persisted) = 1
    /\ persisted[1].hash = "h1"
    /\ ledger["h1"] = persisted[1].slice
    /\ ledger["h1"] # SampleLedger["h1"]
    /\ ~response.success

(***************************************************************************)
(* Claims about the listing (checked under SpecList).                      *)
(***************************************************************************)
\* The list endpoint has answered
ListDone == pc = "listed"

\* The transaction at position i of the ledger is in the response
IsListed(i) ==
    \E k \in 1..Len(response.transactions) :
        response.transactions[k].lineno = ledger.transactions[i].lineno

\* start <= date <= end, a missing bound holding for every date, and no
\* interval at all (no time parameter, or one that does not parse) holding
\* for every date
Admits(date) ==
    \/ request.kind # "parsed"
    \/ /\ \/ request.value[1].kind = "null"
          \/ request.value[1].day <= date.day
       /\ \/ request.value[2].kind = "null"
          \/ date.day <= request.value[2].day

\* C23: a transaction is listed exactly when start <= date <= end, both
\* bounds included, where a null start or end leaves that side open and a
\* missing interval admits every transaction.
C23_ListedIffInInterval ==
    ListDone =>
        \A i \in 1..Len(ledger.transactions) :
            IsListed(i) <=> Admits(ledger.transactions[i].date)

\* C23 witness: with the interval from day 2 to day 2, the transactions of
\* day 2 (lines 10 and 40) are listed and those of day 1 and day 3 are not.
C23_Witness ==
    /\ pc = "listed"
    /\ request = [kind |-> "parsed", value |-> <<Day(2), Day(2)>>]
    /\ [i \in 1..4 |-> ledger.transactions[i].date.day] = <<2, 1, 3, 2>>
    /\ [k \in 1..Len(response.transactions) |->
           response.transactions[k].lineno] = <<10, 40>>

\* The transaction of the ledger an entry of the response was built from
SourceOf(entry) ==
    CHOOSE txn \in {ledger.transactions[i] : i \in 1..Len(ledger.transactions)} :
        txn.lineno = entry.lineno

\* The number of postings of the transaction on the catch-all account
CatchAllCount(txn) ==
    Cardinality({i \in 1..Len(txn.postings) :
        /\ Len(txn.postings[i].account) = 3
        /\ txn.postings[i].account[1] = "Expenses:"
        /\ txn.postings[i].account[2] = "Family:"
        /\ txn.postings[i].account[3] = "Unclassified"})

\* C24: a listed transaction is flagged unclassified exactly when one of
\* its postings has the account Expenses:Family:Unclassified, that very
\* account and not one that only starts like it, and its listed postings
\* are its postings without those of that account.
C24_UnclassifiedIffCatchAllPosting ==
    ListDone =>
        \A k \in 1..Len(response.transactions) :
            LET entry == response.transactions[k]
                txn == SourceOf(entry)
            IN  /\ entry.unclassified <=> CatchAllCount(txn) > 0
                /\ \A j \in 1..Len(entry.postings) :
                       entry.postings[j].account #
                           <<"Expenses:", "Family:", "Unclassified">>
                /\ Len(entry.postings) = Len(txn.postings) - CatchAllCount(txn)

\* C24 witness: with no time parameter all four transactions are listed;
\* the first is unclassified and shows its Assets posting only, the third
\* (account Expenses:Family:Unclassified:Old) is not unclassified, the
\* fourth is unclassified and shows no posting.
C24_Witness ==
    /\ pc = "listed"
    /\ request = [kind |-> "absent"]
    /\ Len(response.transactions) = 4
    /\ response.transactions[1].unclassified
    /\ Len(response.transactions[1].postings) = 1
    /\ ~response.transactions[3].unclassified
    /\ Len(response.transactions[3].postings) = 2
    /\ response.transactions[4].unclassified
    /\ response.transactions[4].postings = <<>>

\* The errors of the ledger that have a source with the line number n
ErrorsOfLine(n) ==
    SelectSeq(ledger.errors,
        LAMBDA err : /\ err.source.kind = "dict"
                     /\ "lineno" \in DOMAIN err.source
                     /\ err.source.lineno = n)

\* C25: the map returned by _get_errors has a key for exactly the line
\* numbers some error with a source names, and holds for each the messages
\* of the errors of that line in the order of the ledger's error list;
\* errors without a source or without a line number add nothing and the
\* call does not fail.
C25_ErrorMapByLine ==
    ListDone =>
        /\ ~result.raised
        /\ \A n \in {10, 20, 30, 40} :
               /\ n \in DOMAIN result.value <=> ErrorsOfLine(n) # <<>>
               /\ n \in DOMAIN result.value =>
                      result.value[n] =
                          [j \in 1..Len(ErrorsOfLine(n)) |->
                              ErrorsOfLine(n)[j].message]
        /\ DOMAIN result.value \subseteq {10, 20, 30, 40}

\* C25 witness: errors B (line 10), C (line 20), A (line 10) gave the map
\* 10 -> B, A and 20 -> C, and the listing shows them with the transactions
\* of those lines.
C25_Witness ==
    /\ pc = "listed"
    /\ ledger.errors = <<ErrorB, ErrorC, ErrorA>>
    /\ result.value = (10 :> <<<<"B">>, <<"A">>>>) @@ (20 :> <<<<"C">>>>)
    /\ request = [kind |-> "absent"]
    /\ response.transactions[1].errors =
           [kind |-> "list", items |-> <<<<"B">>, <<"A">>>>]
    /\ response.transactions[3].errors = None

(***************************************************************************)
(* Claims about the narration rewriter and the lines of the block (checked *)
(* under SpecNarrationAnyText).                                            *)
(***************************************************************************)
\* The lines after the first of the block handed in, and of the result
LinesAfterHeader(lines) == SubSeq(lines, 2, Len(lines))

\* The supplied narration holds a line break
HasLineBreak(narration) == \E i \in 1..Len(narration) : narration[i] = "\n"

ChangedTwice == pc = "changed again"

Spaces(n) == [j \in 1..n |-> " "]

\* C30: a new posting whose amount is empty or whitespace-only is not
\* dropped: among the inserted lines, at its place among the surviving
\* postings, stands "<indent><account> " (the account, one space, nothing
\* more), and the last line is the fallback line with "0 CHF".
C30_BlankAmountPostingSurvives ==
    (ReplaceDone /\ \E i \in 1..Len(orig_postings) :
                        IsBlank(GetAmount(orig_postings[i]))) =>
        LET inserted == InsertedLines
            indent == Spaces(CanonicalIndent)
            last == ResultLines[Len(ResultLines)]
        IN  \A i \in 1..Len(orig_postings) :
                IsBlank(GetAmount(orig_postings[i])) =>
                    LET k == Len(SelectSeq(SubSeq(orig_postings, 1, i), Survives))
                    IN  /\ k <= Len(inserted)
                        /\ inserted[k] =
                               indent \o orig_postings[i].account \o <<" ">>
                        /\ last =
                               indent \o <<"Expenses:", "Family:", "Unclassified",
                                           " ", "0", " ", "C", "H", "F">>

\* C30 witness: the only new posting has the amount " \t"; its line
\* "    Expenses:Rent " was inserted and the fallback line carries 0 CHF.
C30_Witness ==
    /\ pc = "replaced"
    /\ entry_str = JoinLines(<<HeaderLine, CatchAllLine>>)
    /\ orig_postings = <<[account |-> <<"Expenses:", "Rent">>,
                          amount |-> <<" ", "\t">>]>>
    /\ ResultLines =
           <<HeaderLine,
             <<" ", " ", " ", " ", "Expenses:", "Rent", " ">>,
             <<" ", " ", " ", " ", "Expenses:", "Family:", "Unclassified",
               " ", "0", " ", "C", "H", "F">>>>

====
